---------------------------- MODULE Spec2Model ----------------------------
(***************************************************************************)
(* A model of the FrED fibre-extrusion device controller                   *)
(* (main.py, extruder.py, spooler.py, fan.py, fiber_camera.py,             *)
(* user_interface.py).                                                     *)
(*                                                                         *)
(* Fixed-point conventions (the source computes in Python floats):         *)
(*   time                      centiseconds      (0.1 s   = 10)            *)
(*   temperature, RPM, error,                                              *)
(*   PID output, duty cycle    hundredths        (95.0    = 9500)          *)
(*   integral accumulators     hundredths x cs   (100     = 1000000)       *)
(*   derivative                hundredths per s                            *)
(*   thermistor voltage        units of 0.1 mV   (3.3 V   = 33000)         *)
(*   calibration slope         hundredths        (-1      = -100)          *)
(* Divisions round towards minus infinity (\div).                          *)
(***************************************************************************)
EXTENDS Integers, Sequences, FiniteSets, TLC

VARIABLES
    gui,          \* UserInterface: the flags and setpoints the worker reads
    fan,          \* Fan object
    spooler,      \* Spooler object
    extruder,     \* Extruder object
    Database,     \* Database class attributes: telemetry lists, calibration store
    worker,       \* hardware_control thread: position and locals
    fiber_camera, \* FiberCamera object (gui.fiber_camera)
    cal,          \* locals of Spooler.calibrate while it runs
    camera_calibrate, \* locals of FiberCamera.calibrate while it runs (GUI thread)
    now,          \* time.time(), centiseconds since the process started
    budget,       \* environment inputs used so far: commands, exceptions, direct calls
    event         \* the call made by the last step and how it ended (history)

vars == <<gui, fan, spooler, extruder, fiber_camera, Database, worker, cal,
          camera_calibrate, now, budget, event>>

---------------------------------------------------------------------------
(* Bounds of the model *)

\* harness: number of direct calls of the step methods
MaxCalls == 3
\* program: number of iterations of the orchestrator loop
MaxTicks == 3
\* program: number of exceptions the environment injects in one run
MaxFaults == 1
\* program: number of button presses in one run
MaxCommands == 3

---------------------------------------------------------------------------
(* Python helpers *)

Min2(a, b) == IF b < a THEN b ELSE a
Max2(a, b) == IF b > a THEN b ELSE a

RECURSIVE SumSeq(_)
SumSeq(s) == IF s = <<>> THEN 0 ELSE Head(s) + SumSeq(Tail(s))

\* s[-n:]
LastN(s, n) == IF Len(s) <= n THEN s ELSE SubSeq(s, Len(s) - n + 1, Len(s))

\* Database.<list>.append(v)
Log(db, list, v) == [db EXCEPT ![list] = Append(@, v)]

---------------------------------------------------------------------------
(* RPi.GPIO PWM objects: running (start/stop) and duty cycle *)

\* self.pwm = None
NoPWM == [exists |-> FALSE, running |-> FALSE, dc |-> 0]
\* GPIO.PWM(pin, frequency) followed by start(dc)
NewPWM(dc) == [exists |-> TRUE, running |-> TRUE, dc |-> dc]
ChangeDutyCycle(pwm, dc) == [pwm EXCEPT !.dc = dc]
StopPWM(pwm) == [pwm EXCEPT !.running = FALSE]

---------------------------------------------------------------------------
(* extruder.py: Thermistor *)

VOLTAGE_SUPPLY == 33000
RESISTOR == 10000
Thermistor_READINGS_TO_AVERAGE == 10
\* voltage < 0.0001
VOLTAGE_THRESHOLD == 1

\* The Beta-model conversion of lines 24-26, in hundredths of a degree,
\* tabulated at the sampled voltages:
\*   R = (3.3 - V) * 10000 / V ; T = 1 / (ln(R / 100000) / 3977 + 1 / 298.15) - 273.15
BetaModel(voltage) ==
    CASE voltage = 3000  -> 2500
      [] voltage = 10000 -> 6191
      [] voltage = 16500 -> 8720
      [] voltage = 20000 -> 10184
      [] voltage = 25000 -> 12869
      [] voltage = 30000 -> 18220

SampledVoltages == {3000, 10000, 16500, 20000, 25000, 30000}

\* math.log raises ValueError when its argument is not positive
LogRaises(resistance) == resistance <= 0

\* Thermistor.get_temperature: the value returned, the reading history after
\* the call, and whether the call raised
\* a smoothing that averages the whole history
get_temperature_all(readings, voltage) ==
    IF voltage < VOLTAGE_THRESHOLD
    THEN [raised |-> FALSE, value |-> 0, readings |-> readings]
    ELSE IF LogRaises((VOLTAGE_SUPPLY - voltage) * RESISTOR)
    THEN [raised |-> TRUE, value |-> 0, readings |-> readings]
    ELSE LET appended == Append(readings, BetaModel(voltage))
         IN [raised |-> FALSE, value |-> SumSeq(appended) \div Len(appended),
             readings |-> appended]

get_temperature(readings, voltage) ==
    IF voltage < VOLTAGE_THRESHOLD
    THEN [raised |-> FALSE, value |-> 0, readings |-> readings]
    ELSE IF LogRaises((VOLTAGE_SUPPLY - voltage) * RESISTOR)
    THEN [raised |-> TRUE, value |-> 0, readings |-> readings]
    ELSE LET temperature == BetaModel(voltage)
             appended == Append(readings, temperature)
             average_temperature ==
                 IF Len(appended) > Thermistor_READINGS_TO_AVERAGE
                 THEN SumSeq(LastN(appended, Thermistor_READINGS_TO_AVERAGE))
                          \div Thermistor_READINGS_TO_AVERAGE
                 ELSE SumSeq(appended) \div Len(appended)
         IN [raised |-> FALSE, value |-> average_temperature, readings |-> appended]

---------------------------------------------------------------------------
(* extruder.py: Extruder *)

Extruder_SAMPLE_TIME == 10
MAX_OUTPUT == 10000
MIN_OUTPUT == 0
target_temperature == 9500

\* Extruder.__init__
Extruder_init ==
    [ pwm            |-> NewPWM(0),      \* stepper pulse train, GPIO.PWM(STEP_PIN, 1000)
      frequency      |-> 100000,
      heater_pwm     |-> NewPWM(0),
      previous_time  |-> 0,
      previous_error |-> 0,
      integral       |-> 0 ]

\* a gate that lets the call through when exactly SAMPLE_TIME has elapsed
ExtruderGate_strict(current_time, previous_time) ==
    current_time - previous_time < Extruder_SAMPLE_TIME

\* the rate gate of the temperature step: TRUE when the call returns at once
ExtruderGate(current_time, previous_time) ==
    current_time - previous_time <= Extruder_SAMPLE_TIME

\* kp * error + ki * integral + kd * derivative, kp = 1, ki = 0.001, kd = 0.6
TemperaturePID(error, integral, derivative) ==
    (1000 * error + (integral \div 100) + 600 * derivative) \div 1000

\* lines 116-119
ClampHeater(output) ==
    IF output > MAX_OUTPUT THEN MAX_OUTPUT
    ELSE IF output < MIN_OUTPUT THEN MIN_OUTPUT
    ELSE output

\* The telemetry of one executed temperature step
LogTemperature(db, current_time, delta_time, error, output) ==
    [db EXCEPT !.temperature_timestamps = Append(@, current_time),
               !.temperature_delta_time = Append(@, delta_time),
               !.temperature_setpoint   = Append(@, target_temperature),
               !.temperature_error      = Append(@, error),
               !.temperature_pid_output = Append(@, output),
               !.temperature_kp         = Append(@, 1000),
               !.temperature_ki         = Append(@, 1),
               !.temperature_kd         = Append(@, 600)]

\* Extruder.temperature_control_loop(current_time).  sensor_ok: reading
\* channel_0.voltage does not raise; pwm_ok: heater_pwm.ChangeDutyCycle does
\* not raise.  Result: the Extruder and the Database after the call, whether
\* the body ran past the gate, and whether an exception was caught.
temperature_control_loop(self, db, current_time, sensor_ok, voltage, pwm_ok) ==
    IF ExtruderGate(current_time, self.previous_time)
    THEN [self |-> self, db |-> db, ran |-> FALSE, caught |-> FALSE]
    ELSE
      LET delta_time == current_time - self.previous_time
          s1 == [self EXCEPT !.previous_time = current_time]
          t  == get_temperature(db.temperature_readings, voltage)
          db1 == [db EXCEPT !.temperature_readings = t.readings]
          error == target_temperature - t.value
          integral == s1.integral + error * delta_time
          derivative == ((error - s1.previous_error) * 100) \div delta_time
          s2 == [s1 EXCEPT !.integral = integral, !.previous_error = error]
          output == ClampHeater(TemperaturePID(error, integral, derivative))
          s3 == [s2 EXCEPT !.heater_pwm = ChangeDutyCycle(@, output)]
      IN IF ~sensor_ok
         THEN [self |-> s1, db |-> db, ran |-> TRUE, caught |-> TRUE]
         ELSE IF t.raised
         THEN [self |-> s1, db |-> db1, ran |-> TRUE, caught |-> TRUE]
         ELSE IF delta_time = 0      \* line 111 raises ZeroDivisionError
         THEN [self |-> [s1 EXCEPT !.integral = integral], db |-> db1,
               ran |-> TRUE, caught |-> TRUE]
         ELSE IF ~pwm_ok
         THEN [self |-> s2, db |-> db1, ran |-> TRUE, caught |-> TRUE]
         ELSE [self |-> s3,
               db |-> LogTemperature(db1, current_time, delta_time, error, output),
               ran |-> TRUE, caught |-> FALSE]

---------------------------------------------------------------------------
(* database.py is not among the sources: the calibration store holds one   *)
(* number per name, -1 standing for "not calibrated" (spec, section 6).    *)

\* Database.get_calibration_data(name)
get_calibration_data(db, name) == db.calibration[name]

\* Database.update_calibration_data(name, str(value))
update_calibration_data(db, name, value) ==
    [db EXCEPT !.calibration[name] = value]

---------------------------------------------------------------------------
(* spooler.py: Spooler *)

PULSES_PER_REVOLUTION == 4704
Spooler_READINGS_TO_AVERAGE == 10
Spooler_SAMPLE_TIME == 10

\* Spooler.__init__: slope and intercept come from the calibration store;
\* the PWM is created by start()
Spooler_init(db) ==
    LET slope == get_calibration_data(db, "motor_slope")
        intercept == get_calibration_data(db, "motor_intercept")
    IN [ pwm                     |-> NoPWM,
         slope                   |-> slope,
         intercept               |-> intercept,
         motor_calibration       |-> ~(slope = -100 \/ intercept = -100),
         previous_time           |-> 0,
         integral_diameter       |-> 0,
         previous_error_diameter |-> 0,
         previous_position       |-> 0,
         integral_motor          |-> 0,
         previous_error_motor    |-> 0 ]

\* Spooler.start(frequency, duty_cycle)
Spooler_start(self, duty_cycle) == [self EXCEPT !.pwm = NewPWM(duty_cycle)]

\* Spooler.stop
Spooler_stop(self) ==
    IF self.pwm.exists THEN [self EXCEPT !.pwm = StopPWM(@)] ELSE self

\* Spooler.update_duty_cycle raises when there is no PWM object (AttributeError)
\* or when the GPIO write fails
update_duty_cycle_raises(self, pwm_ok) == ~self.pwm.exists \/ ~pwm_ok

\* Spooler.update_duty_cycle
update_duty_cycle(self, duty_cycle) ==
    [self EXCEPT !.pwm = ChangeDutyCycle(@, duty_cycle)]

\* Spooler.rpm_to_duty_cycle
rpm_to_duty_cycle(self, rpm) == (self.slope * rpm) \div 100 + self.intercept

\* a gate that skips the step only when the clock went backwards
SpoolerGate_negative(current_time, previous_time) ==
    current_time - previous_time < 0

\* the rate gate of the motor steps: TRUE when the call returns at once
SpoolerGate(current_time, previous_time) ==
    current_time - previous_time <= Spooler_SAMPLE_TIME

\* (delta_position / PULSES_PER_REVOLUTION) * (60 / delta_time), in hundredths
\* of an RPM with delta_time in cs: delta_position * 600000 / (4704 * delta_time),
\* the fraction reduced by 48
\* an RPM that takes the nominal sample period for the elapsed time
EncoderRPM_nominal(delta_position, delta_time) ==
    (delta_position * 12500) \div ((PULSES_PER_REVOLUTION \div 48) * Spooler_SAMPLE_TIME)

EncoderRPM(delta_position, delta_time) ==
    (delta_position * 12500) \div ((PULSES_PER_REVOLUTION \div 48) * delta_time)

\* the accumulator left as it is
AntiWindupMotor_none(integral) == integral

\* max(min(integral_motor, 100), -100)
AntiWindupMotor(integral) == Max2(Min2(integral, 1000000), -1000000)

\* motor_kp * error + motor_ki * integral + motor_kd * derivative,
\* motor_kp = 0.4, motor_ki = 0.2, motor_kd = 0.05
MotorPID(error, integral, derivative) ==
    (40 * error + 20 * (integral \div 100) + 5 * derivative) \div 100

\* the duty cycle written as computed
ClampDutyCycle_none(duty_cycle) == duty_cycle

\* max(min(output_duty_cycle, 100), 0)
ClampDutyCycle(duty_cycle) == Max2(Min2(duty_cycle, 10000), 0)

\* The telemetry of one executed closed-loop motor step
LogSpooler(db, current_time, delta_time, setpoint_rpm, current_rpm) ==
    [db EXCEPT !.spooler_timestamps = Append(@, current_time),
               !.spooler_delta_time = Append(@, delta_time),
               !.spooler_setpoint   = Append(@, setpoint_rpm),
               !.spooler_rpm        = Append(@, current_rpm),
               !.spooler_kp         = Append(@, 40),
               !.spooler_ki         = Append(@, 20),
               !.spooler_kd         = Append(@, 5)]

\* Spooler.dc_motor_close_loop_control(current_time).  sensor_ok: read_encoder
\* does not raise and returns position; pwm_ok: the PWM write does not raise.
dc_motor_close_loop_control(self, db, g, current_time, sensor_ok, position, pwm_ok) ==
    IF SpoolerGate(current_time, self.previous_time)
    THEN [self |-> self, db |-> db, ran |-> FALSE, caught |-> FALSE]
    ELSE
      LET s0 == [self EXCEPT !.motor_calibration = TRUE]
          current_position == position
          delta_time == current_time - s0.previous_time
          delta_position == current_position - s0.previous_position
          current_rpm == EncoderRPM(delta_position, delta_time)
          s1 == [s0 EXCEPT !.previous_position = current_position,
                           !.previous_time = current_time]
          setpoint_rpm == g.motor_setpoint
          error == setpoint_rpm - current_rpm
          integral == AntiWindupMotor(s1.integral_motor + error * delta_time)
          derivative == ((error - s1.previous_error_motor) * 100) \div delta_time
          s2 == [s1 EXCEPT !.integral_motor = integral,
                           !.previous_error_motor = error]
          output == MotorPID(error, integral, derivative)
          output_duty_cycle == ClampDutyCycle(rpm_to_duty_cycle(s2, output))
      IN IF ~sensor_ok
         THEN [self |-> s0, db |-> db, ran |-> TRUE, caught |-> TRUE]
         ELSE IF delta_time = 0      \* line 138 raises ZeroDivisionError
         THEN [self |-> s0, db |-> db, ran |-> TRUE, caught |-> TRUE]
         ELSE IF update_duty_cycle_raises(s2, pwm_ok)
         THEN [self |-> s2, db |-> db, ran |-> TRUE, caught |-> TRUE]
         ELSE [self |-> update_duty_cycle(s2, output_duty_cycle),
               db |-> LogSpooler(db, current_time, delta_time, setpoint_rpm, current_rpm),
               ran |-> TRUE, caught |-> FALSE]

---------------------------------------------------------------------------
(* fiber_camera.py: FiberCamera.  Pixel widths are in hundredths of a      *)
(* pixel, the coefficient in 1e-7 mm per pixel, diameters in 1e-4 mm.      *)
(* A frame is what capture.read and the line detector give for it:         *)
(*   [raises, success, none, lines], lines a sequence of <<x0, y0, x1, y1>>*)
(* and none = TRUE for HoughLinesP returning None.                         *)

\* sys.maxsize, taken as the largest 32-bit integer
MAXSIZE == 2147483647

\* the default coefficient UserInterface.__init__ installs for the -1 sentinel
DEFAULT_COEFFICIENT == 78232

\* FiberCamera.__init__ followed by UserInterface.__init__ lines 76-79
FiberCamera_init(db) ==
    LET c == get_calibration_data(db, "diameter_coefficient")
    IN [ diameter_coefficient |-> IF c = -10000000 THEN DEFAULT_COEFFICIENT ELSE c,
         previous_time        |-> 0,
         \* history: the methods that have written previous_time and the
         \* diameter telemetry so far
         writers              |-> {} ]

\* the loop of get_fiber_diameter over the lines, from the initial extremes
RECURSIVE LineExtremes(_, _)
LineExtremes(lines, acc) ==
    IF lines = <<>> THEN acc
    ELSE LET x0 == Head(lines)[1]
             x1 == Head(lines)[3]
         IN LineExtremes(Tail(lines),
              [ leftmost_min  |-> Min2(Min2(acc.leftmost_min, x0), x1),
                leftmost_max  |-> Max2(acc.leftmost_max, Min2(x0, x1)),
                rightmost_min |-> Min2(acc.rightmost_min, Max2(x0, x1)),
                rightmost_max |-> Max2(Max2(acc.rightmost_max, x0), x1) ])

\* FiberCamera.get_fiber_diameter_noC
get_fiber_diameter_noC(none, lines) ==
    IF none \/ Len(lines) <= 1 THEN 0
    ELSE LET e == LineExtremes(lines,
                    [ leftmost_min |-> MAXSIZE, leftmost_max |-> 0,
                      rightmost_min |-> MAXSIZE, rightmost_max |-> 0 ])
         IN (((e.leftmost_max - e.leftmost_min)
               + (e.rightmost_max - e.rightmost_min)) * 100) \div 2

\* width (1e-2 px) times coefficient (1e-7 mm/px), in 1e-4 mm
TimesCoefficient(width, coefficient) ==
    (coefficient \div 100000) * width + ((coefficient % 100000) * width) \div 100000

\* FiberCamera.get_fiber_diameter
get_fiber_diameter(self, none, lines) ==
    IF none \/ Len(lines) <= 1 THEN 0
    ELSE TimesCoefficient(get_fiber_diameter_noC(none, lines), self.diameter_coefficient)

\* The telemetry of one measured frame
LogCamera(db, timestamp, diameter, setpoint, delta_time) ==
    [db EXCEPT !.camera_timestamps   = Append(@, timestamp),
               !.diameter_readings   = Append(@, diameter),
               !.diameter_setpoint   = Append(@, setpoint),
               !.diameter_delta_time = Append(@, delta_time)]

\* a camera step that logs only the frames in which a fiber was measured
camera_feedback_measured(self, db, g, current_time, frame) ==
    IF frame.raises
    THEN [self |-> self, db |-> db, caught |-> TRUE]
    ELSE IF ~frame.success
    THEN [self |-> self, db |-> db, caught |-> FALSE]
    ELSE LET current_diameter == get_fiber_diameter(self, frame.none, frame.lines)
         IN IF current_diameter = 0
            THEN [self |-> self, db |-> db, caught |-> FALSE]
            ELSE [self |-> [self EXCEPT !.previous_time = current_time,
                                         !.writers = @ \cup {"camera_feedback"}],
                  db |-> LogCamera(db, current_time, current_diameter, g.target_diameter,
                                   current_time - self.previous_time),
                  caught |-> FALSE]

\* FiberCamera.camera_feedback(current_time)
camera_feedback(self, db, g, current_time, frame) ==
    IF frame.raises
    THEN [self |-> self, db |-> db, caught |-> TRUE]
    ELSE IF ~frame.success
    THEN [self |-> self, db |-> db, caught |-> FALSE]
    ELSE LET current_diameter == get_fiber_diameter(self, frame.none, frame.lines)
         IN [self |-> [self EXCEPT !.previous_time = current_time,
                                    !.writers = @ \cup {"camera_feedback"}],
             db |-> LogCamera(db, current_time, current_diameter, g.target_diameter,
                              current_time - self.previous_time),
             caught |-> FALSE]

\* FiberCamera.camera_loop, called by the GUI's 200 ms timer: current_time is
\* time.time() itself, not the time since init_time
camera_loop(self, db, g, current_time, frame) ==
    IF ~frame.success
    THEN [self |-> self, db |-> db]
    ELSE LET fiber_diameter == get_fiber_diameter(self, frame.none, frame.lines)
         IN [self |-> [self EXCEPT !.previous_time = current_time,
                                    !.writers = @ \cup {"camera_loop"}],
             db |-> LogCamera(db, current_time, fiber_diameter, g.target_diameter,
                              current_time - self.previous_time)]

\* FiberCamera.calibrate: number of frames averaged
Camera_num_samples == 50

\* the locals of FiberCamera.calibrate on entry; overlapped records that the
\* worker's camera_feedback read a frame while the calibration was reading
FiberCamera_calibrate_locals ==
    [ pc                   |-> "idle",
      diameter_mm          |-> 0,
      frames_read          |-> 0,
      accumulated_diameter |-> 0,
      valid_samples        |-> 0,
      success              |-> FALSE,
      detected_lines       |-> [none |-> TRUE, lines |-> <<>>],
      fiber_diameter       |-> 0,
      overlapped           |-> FALSE ]

\* between the first frame read of calibrate and its write of the coefficient
CalibrationReading(c) == c.pc = "frames" /\ c.frames_read >= 1

\* a pass of the loop that counts every frame it could read, also one
\* without a measurable width
FiberCamera_calibrate_frame_all(c, frame) ==
    LET fiber_diameter == get_fiber_diameter_noC(frame.none, frame.lines)
    IN IF ~frame.success
       THEN [c EXCEPT !.frames_read = @ + 1, !.success = FALSE]
       ELSE [c EXCEPT !.frames_read = @ + 1,
                      !.success = TRUE,
                      !.detected_lines = [none |-> frame.none, lines |-> frame.lines],
                      !.fiber_diameter = fiber_diameter,
                      !.accumulated_diameter = @ + fiber_diameter,
                      !.valid_samples = @ + 1]

\* one pass of the loop of FiberCamera.calibrate (lines 173-184)
FiberCamera_calibrate_frame(c, frame) ==
    LET fiber_diameter == get_fiber_diameter_noC(frame.none, frame.lines)
        counted == fiber_diameter > 0
    IN IF ~frame.success      \* continue
       THEN [c EXCEPT !.frames_read = @ + 1, !.success = FALSE]
       ELSE [c EXCEPT !.frames_read = @ + 1,
                      !.success = TRUE,
                      !.detected_lines = [none |-> frame.none, lines |-> frame.lines],
                      !.fiber_diameter = fiber_diameter,
                      !.accumulated_diameter = IF counted THEN @ + fiber_diameter ELSE @,
                      !.valid_samples = IF counted THEN @ + 1 ELSE @]

\* a coefficient that falls back to 1 mm/px when no sample was valid
FiberCamera_calibrate_coefficient_unit(c) ==
    IF c.valid_samples > 0
    THEN (c.diameter_mm * 100000) \div (c.accumulated_diameter \div c.valid_samples)
    ELSE 10000000

\* lines 186-190: diameter_mm / average_diameter_px, the diameter in 1e-4 mm,
\* the average in 1e-2 px (1 px when no sample was valid)
FiberCamera_calibrate_coefficient(c) ==
    LET average_diameter_px ==
            IF c.valid_samples > 0 THEN c.accumulated_diameter \div c.valid_samples
            ELSE 100
    IN (c.diameter_mm * 100000) \div average_diameter_px

---------------------------------------------------------------------------
(* spooler.py: the diameter cascade *)

\* Spooler.get_average_diameter raises ZeroDivisionError on an empty list
get_average_diameter_raises(db) == Len(db.diameter_readings) = 0

\* Spooler.get_average_diameter
get_average_diameter(db) ==
    IF Len(db.diameter_readings) < Spooler_READINGS_TO_AVERAGE
    THEN SumSeq(db.diameter_readings) \div Len(db.diameter_readings)
    ELSE SumSeq(LastN(db.diameter_readings, Spooler_READINGS_TO_AVERAGE))
           \div Spooler_READINGS_TO_AVERAGE

\* UserInterface defines no extrusion_motor_speed attribute
GuiHasExtrusionMotorSpeed == FALSE

\* Spooler.diameter_to_rpm: 25/28 * 11 * stepper_rpm * (7**2 / (15.2 * diameter**2)),
\* in hundredths of an RPM, the diameter taken in 1e-2 mm
diameter_to_rpm(g, diameter) ==
    LET stepper_rpm == IF GuiHasExtrusionMotorSpeed THEN g.extrusion_motor_speed ELSE 0
        d == diameter \div 100
    IN (stepper_rpm * 316612) \div (d * d)

\* max(min(integral_diameter, 0.5), -0.5)
AntiWindupDiameter(integral) == Max2(Min2(integral, 500000), -500000)

\* diameter_kp * error + diameter_ki * integral + diameter_kd * derivative,
\* diameter_kp = 0.1, diameter_ki = 0.01, diameter_kd = 0.01
DiameterPID(error, integral, derivative) ==
    (10 * error + (integral \div 100) + derivative) \div 100

\* the conventional clamp to [0, 60]
ClampSetpoint_conventional(setpoint_rpm) == Max2(Min2(setpoint_rpm, 6000), 0)

\* max(min(setpoint_rpm, 0), 60)
ClampSetpoint(setpoint_rpm) == Max2(Min2(setpoint_rpm, 0), 6000)

\* Spooler.motor_control_loop(current_time)
motor_control_loop(self, db, g, current_time, sensor_ok, position, pwm_ok) ==
    IF SpoolerGate(current_time, self.previous_time)
    THEN [self |-> self, db |-> db, ran |-> FALSE, caught |-> FALSE]
    ELSE
      LET s0 == [self EXCEPT !.motor_calibration = TRUE]
          current_position == position
          delta_time == current_time - s0.previous_time
          delta_position == current_position - s0.previous_position
          current_rpm == EncoderRPM(delta_position, delta_time)
          s1 == [s0 EXCEPT !.previous_position = current_position,
                           !.previous_time = current_time]
          target_diameter == g.target_diameter
          current_diameter == get_average_diameter(db)
          error == target_diameter - current_diameter
          integral_diameter ==
              AntiWindupDiameter(s1.integral_diameter + error * delta_time)
          derivative == ((error - s1.previous_error_diameter) * 100) \div delta_time
          s2 == [s1 EXCEPT !.integral_diameter = integral_diameter,
                           !.previous_error_diameter = error]
          output == DiameterPID(error, integral_diameter, derivative)
          setpoint_rpm == ClampSetpoint(diameter_to_rpm(g, target_diameter))
          error_motor == setpoint_rpm - current_rpm
          integral_motor ==
              AntiWindupMotor(s2.integral_motor + error_motor * delta_time)
          derivative_motor ==
              ((error_motor - s2.previous_error_motor) * 100) \div delta_time
          s3 == [s2 EXCEPT !.integral_motor = integral_motor,
                           !.previous_error_motor = error_motor]
          output_motor == MotorPID(error_motor, integral_motor, derivative_motor)
          output_duty_cycle == ClampDutyCycle(rpm_to_duty_cycle(s3, output_motor))
      IN IF ~sensor_ok
         THEN [self |-> s0, db |-> db, ran |-> TRUE, caught |-> TRUE]
         ELSE IF delta_time = 0      \* line 198 raises ZeroDivisionError
         THEN [self |-> s0, db |-> db, ran |-> TRUE, caught |-> TRUE]
         ELSE IF get_average_diameter_raises(db)
         THEN [self |-> s1, db |-> db, ran |-> TRUE, caught |-> TRUE]
         ELSE IF update_duty_cycle_raises(s3, pwm_ok)
         THEN [self |-> s3, db |-> db, ran |-> TRUE, caught |-> TRUE]
         ELSE [self |-> update_duty_cycle(s3, output_duty_cycle),
               db |-> [db EXCEPT !.spooler_timestamps = Append(@, current_time),
                                 !.spooler_delta_time = Append(@, delta_time)],
               ran |-> TRUE, caught |-> FALSE]

---------------------------------------------------------------------------
(* spooler.py: Spooler.calibrate *)

num_samples == 5
FIRST_DUTY_CYCLE == 20
LAST_DUTY_CYCLE == 100
DUTY_CYCLE_STEP == 10
\* time.sleep(2) + time.sleep(Spooler.SAMPLE_TIME), one sample of the sweep
SAMPLE_DURATION == 210

\* the locals of calibrate on entry
calibrate_locals ==
    [ duty_cycle  |-> FIRST_DUTY_CYCLE,
      rpm_values  |-> <<>>,
      duty_cycles |-> <<>> ]

\* end_position - start_position over the 0.1 s of a sample, for a motor
\* whose speed follows the applied duty cycle
EncoderResponse(duty_cycle) == 5 * duty_cycle

RECURSIVE SumProducts(_, _)
SumProducts(xs, ys) ==
    IF xs = <<>> THEN 0 ELSE Head(xs) * Head(ys) + SumProducts(Tail(xs), Tail(ys))

\* np.polyfit(rpm_values, duty_cycles, 1): the least-squares line, slope and
\* intercept in hundredths (rpm_values in hundredths, duty_cycles in percent)
polyfit(rpm_values, duty_cycles) ==
    LET n   == Len(rpm_values)
        sx  == SumSeq(rpm_values)
        sy  == SumSeq(duty_cycles)
        sxy == SumProducts(rpm_values, duty_cycles)
        sxx == SumProducts(rpm_values, rpm_values)
        num == n * sxy - sx * sy
        den == n * sxx - sx * sx
        slope == IF den \div 100 = 0 THEN 0 ELSE (num * 100) \div (den \div 100)
    IN [ slope |-> slope,
         intercept |-> (sy * 100 - (slope * sx) \div 100) \div n ]

\* the inner loop (lines 260-272): num_samples samples at one duty cycle
RECURSIVE rpm_samples_of(_, _)
rpm_samples_of(duty_cycle, n) ==
    IF n = 0 THEN <<>>
    ELSE LET delta_time == Spooler_SAMPLE_TIME
             delta_position == EncoderResponse(duty_cycle)
         IN Append(rpm_samples_of(duty_cycle, n - 1),
                   EncoderRPM(delta_position, delta_time))

\* a pass that discards the old calibration while the sweep is under way
calibrate_step_reset(self, c) ==
    LET rpm_samples == rpm_samples_of(c.duty_cycle, num_samples)
        avg_rpm == SumSeq(rpm_samples) \div num_samples
    IN [ self |-> [update_duty_cycle(self, c.duty_cycle * 100)
                      EXCEPT !.slope = -100, !.intercept = -100],
         c |-> [ duty_cycle  |-> c.duty_cycle + DUTY_CYCLE_STEP,
                 rpm_values  |-> Append(c.rpm_values, avg_rpm),
                 duty_cycles |-> Append(c.duty_cycles, c.duty_cycle) ] ]

\* One pass of the outer loop (lines 258-276)
calibrate_step(self, c) ==
    LET rpm_samples == rpm_samples_of(c.duty_cycle, num_samples)
        avg_rpm == SumSeq(rpm_samples) \div num_samples
    IN [ self |-> update_duty_cycle(self, c.duty_cycle * 100),
         c |-> [ duty_cycle  |-> c.duty_cycle + DUTY_CYCLE_STEP,
                 rpm_values  |-> Append(c.rpm_values, avg_rpm),
                 duty_cycles |-> Append(c.duty_cycles, c.duty_cycle) ] ]

\* lines 279-283
calibrate_fit(self, db, c) ==
    LET coefficients == polyfit(c.rpm_values, c.duty_cycles)
        fitted == [self EXCEPT !.slope = coefficients.slope,
                               !.intercept = coefficients.intercept]
    IN [ self |-> fitted,
         db |-> update_calibration_data(
                    update_calibration_data(db, "motor_slope", fitted.slope),
                    "motor_intercept", fitted.intercept) ]

---------------------------------------------------------------------------
(* fan.py: Fan *)

Fan_init == [ duty_cycle |-> 3000, pwm |-> NoPWM ]

\* Fan.start(frequency, duty_cycle)
Fan_start(self, duty_cycle) ==
    [self EXCEPT !.pwm = NewPWM(duty_cycle), !.duty_cycle = duty_cycle]

\* Fan.stop
Fan_stop(self) ==
    IF self.pwm.exists THEN [self EXCEPT !.pwm = StopPWM(@)] ELSE self

\* Fan.control_loop, that is update_duty_cycle(self.duty_cycle) inside try
Fan_control_loop(self, db, pwm_ok) ==
    IF ~self.pwm.exists
    THEN [self |-> self, db |-> db, caught |-> FALSE]
    ELSE IF ~pwm_ok
    THEN [self |-> self, db |-> db, caught |-> TRUE]
    ELSE [self |-> [self EXCEPT !.pwm = ChangeDutyCycle(@, self.duty_cycle)],
          db |-> Log(db, "fan_duty_cycle", self.duty_cycle),
          caught |-> FALSE]

---------------------------------------------------------------------------
(* extruder.py: the open-loop extrusion drive *)

STEPS_PER_REVOLUTION == 200

\* Extruder.set_motor_speed(rpm): frequency in hundredths of a step per second
set_motor_speed(self, rpm) ==
    [self EXCEPT !.frequency = (rpm * STEPS_PER_REVOLUTION) \div 60,
                 !.pwm = ChangeDutyCycle(@, 5000)]

\* Extruder.stepper_control_loop: reading gui.extrusion_motor_speed raises
\* AttributeError when the attribute is missing, before anything is written
stepper_control_loop(self, db, g) ==
    IF ~GuiHasExtrusionMotorSpeed
    THEN [self |-> self, db |-> db, caught |-> TRUE]
    ELSE LET setpoint_rpm == g.extrusion_motor_speed
             zeroed == [self EXCEPT !.pwm = ChangeDutyCycle(@, 0)]
         IN [self |-> IF setpoint_rpm > 0 THEN set_motor_speed(zeroed, setpoint_rpm)
                      ELSE zeroed,
             db |-> Log(db, "extruder_rpm", setpoint_rpm),
             caught |-> FALSE]

---------------------------------------------------------------------------
(* The state after construction *)

\* the class attributes of Database with the given calibration store
Database_init(calibration) ==
    [ time_readings          |-> <<>>,
      temperature_readings   |-> <<>>,
      temperature_timestamps |-> <<>>,
      temperature_delta_time |-> <<>>,
      temperature_setpoint   |-> <<>>,
      temperature_error      |-> <<>>,
      temperature_pid_output |-> <<>>,
      temperature_kp         |-> <<>>,
      temperature_ki         |-> <<>>,
      temperature_kd         |-> <<>>,
      extruder_rpm           |-> <<>>,
      fan_duty_cycle         |-> <<>>,
      spooler_timestamps     |-> <<>>,
      spooler_delta_time     |-> <<>>,
      spooler_setpoint       |-> <<>>,
      spooler_rpm            |-> <<>>,
      spooler_kp             |-> <<>>,
      spooler_ki             |-> <<>>,
      spooler_kd             |-> <<>>,
      camera_timestamps      |-> <<>>,
      diameter_readings      |-> <<>>,
      diameter_setpoint      |-> <<>>,
      diameter_delta_time    |-> <<>>,
      calibration            |-> calibration ]

\* the calibration stores a run may start from: nothing calibrated, or a
\* motor line and a camera coefficient stored by an earlier run
Uncalibrated ==
    [ motor_slope |-> -100, motor_intercept |-> -100,
      diameter_coefficient |-> -10000000 ]
Calibrated ==
    [ motor_slope |-> 150, motor_intercept |-> 500,
      diameter_coefficient |-> 78125 ]
StoredCalibrations == {Uncalibrated, Calibrated}

\* UserInterface.__init__: the flags, the motor setpoint (30.0) and the
\* target-diameter spin box (0.35)
UserInterface_init ==
    [ device_started              |-> FALSE,
      start_motor_calibration     |-> FALSE,
      camera_feedback_enabled     |-> FALSE,
      dc_motor_close_loop_enabled |-> FALSE,
      motor_setpoint              |-> 3000,
      target_diameter             |-> 3500 ]

\* an Extruder whose constructor has not run: no PWM object exists
NoExtruder == [Extruder_init EXCEPT !.pwm = NoPWM, !.heater_pwm = NoPWM]

\* hardware_control on entry
Worker_init ==
    [ pc           |-> "startup",
      init_time    |-> 0,
      current_time |-> 0,
      ticks        |-> 0,
      steps        |-> <<>> ]

\* the record of a call: the operation, whether its body ran past the rate
\* gate, and whether an exception ended it
Event(op, ran, caught) == [op |-> op, ran |-> ran, caught |-> caught]

Init ==
    /\ \E c \in StoredCalibrations :
         /\ Database = Database_init(c)
         /\ spooler = Spooler_init(Database_init(c))
         /\ fiber_camera = FiberCamera_init(Database_init(c))
    /\ gui = UserInterface_init
    /\ fan = Fan_init
    /\ extruder = NoExtruder
    /\ worker = Worker_init
    /\ cal = calibrate_locals
    /\ camera_calibrate = FiberCamera_calibrate_locals
    /\ now = 0
    /\ budget = [commands |-> 0, faults |-> 0, calls |-> 0]
    /\ event = Event("main", FALSE, FALSE)

---------------------------------------------------------------------------
(* main.py: hardware_control, one action per statement of the loop *)

\* sensor and actuator values the environment presents to the worker
Positions == {4704}
Voltages == {3000, 33000}
FourLines == << <<10, 0, 10, 50>>, <<30, 0, 30, 50>>, <<70, 0, 70, 50>>, <<90, 0, 90, 50>> >>
GoodFrame == [raises |-> FALSE, success |-> TRUE, none |-> FALSE, lines |-> FourLines]
NoFrame == [raises |-> FALSE, success |-> FALSE, none |-> TRUE, lines |-> <<>>]
Frames == {GoodFrame}
\* time.sleep(0.05) and the work of one tick, in cs
TickDurations == {11}

\* the exceptions the environment may still inject
Faults(kinds) == {"none"} \cup (IF budget.faults < MaxFaults THEN kinds ELSE {})
Injected(fault) ==
    IF fault = "none" THEN budget ELSE [budget EXCEPT !.faults = @ + 1]

\* lines 18-30: the constructors and starts in order; failure names the one
\* that raises, "none" when all succeed
StartupOrder == <<"Fan", "Spooler", "Extruder", "fan.start", "spooler.start">>
StartupIndex(name) == CHOOSE i \in 1..Len(StartupOrder) : StartupOrder[i] = name
Done(failure, name) ==
    failure = "none" \/ StartupIndex(name) < StartupIndex(failure)

\* a startup whose except clause does not return
Startup_continue ==
    /\ worker.pc = "startup"
    /\ \E failure \in {"none"} \cup {StartupOrder[i] : i \in 1..Len(StartupOrder)} :
         /\ now' = now + 100
         /\ fan' = IF Done(failure, "fan.start") THEN Fan_start(Fan_init, 4500)
                   ELSE fan
         /\ spooler' = IF Done(failure, "spooler.start")
                       THEN Spooler_start(Spooler_init(Database), 0)
                       ELSE spooler
         /\ extruder' = IF Done(failure, "Extruder") THEN Extruder_init ELSE extruder
         /\ worker' = [worker EXCEPT !.pc = "tick", !.init_time = now']
         /\ event' = Event("startup", TRUE, failure # "none")
    /\ UNCHANGED <<gui, fiber_camera, Database, cal, budget, camera_calibrate>>

Startup ==
    /\ worker.pc = "startup"
    /\ \E failure \in {"none"} \cup {StartupOrder[i] : i \in 1..Len(StartupOrder)} :
         /\ now' = now + 100
         /\ fan' = IF Done(failure, "fan.start") THEN Fan_start(Fan_init, 4500)
                   ELSE fan
         /\ spooler' = IF Done(failure, "spooler.start")
                       THEN Spooler_start(Spooler_init(Database), 0)
                       ELSE spooler
         /\ extruder' = IF Done(failure, "Extruder") THEN Extruder_init ELSE extruder
         /\ worker' = [worker EXCEPT
                         !.pc = IF failure = "none" THEN "tick" ELSE "returned",
                         !.init_time = now']
         /\ event' = Event("startup", TRUE, failure # "none")
    /\ UNCHANGED <<gui, fiber_camera, Database, cal, budget, camera_calibrate>>

\* lines 35-37
Tick ==
    /\ worker.pc = "tick"
    /\ worker.ticks < MaxTicks
    /\ LET current_time == now - worker.init_time
       IN /\ Database' = Log(Database, "time_readings", current_time)
          /\ worker' = [worker EXCEPT
                          !.current_time = current_time,
                          !.steps = <<>>,
                          !.pc = IF gui.start_motor_calibration
                                 THEN "calibrate" ELSE "motor"]
    /\ cal' = calibrate_locals
    /\ event' = Event("tick", TRUE, FALSE)
    /\ UNCHANGED <<gui, fan, spooler, extruder, fiber_camera, now, budget, camera_calibrate>>

\* the duty cycles at which the environment may cut the sweep short
MayCutShort(c) == c.duty_cycle \in {FIRST_DUTY_CYCLE, LAST_DUTY_CYCLE}

\* spooler.calibrate(): one duty cycle of the sweep.  Its first sample may
\* be cut short by an exception of the PWM write, by an exception of the
\* encoder read, or by KeyboardInterrupt during a sleep.
CalibrateStep ==
    /\ worker.pc = "calibrate"
    /\ cal.duty_cycle <= LAST_DUTY_CYCLE
    /\ \E fault \in Faults(IF MayCutShort(cal) THEN {"pwm", "encoder", "interrupt"} ELSE {}) :
         LET r == calibrate_step(spooler, cal)
         IN /\ spooler' = CASE fault = "none" -> r.self
                            [] fault = "pwm" -> spooler
                            [] fault = "encoder" -> r.self
                            [] fault = "interrupt" -> Spooler_stop(r.self)
            /\ cal' = IF fault = "none" THEN r.c ELSE cal
            /\ now' = CASE fault = "none" -> now + num_samples * SAMPLE_DURATION
                        [] fault = "pwm" -> now
                        [] OTHER -> now + SAMPLE_DURATION
            /\ worker' = [worker EXCEPT
                            !.steps = IF fault = "none" THEN @ ELSE Append(@, "calibrate"),
                            !.pc = CASE fault = "none" -> "calibrate"
                                     [] fault = "interrupt" -> "calibrated"
                                     [] OTHER -> "handler"]
            /\ budget' = Injected(fault)
            /\ event' = Event("calibrate", TRUE, fault \in {"pwm", "encoder"})
    /\ UNCHANGED <<gui, fan, extruder, fiber_camera, Database, camera_calibrate>>

\* spooler.calibrate(): after the sweep, the fit, the two stored records
\* and self.stop()
CalibrateFit ==
    /\ worker.pc = "calibrate"
    /\ cal.duty_cycle > LAST_DUTY_CYCLE
    /\ LET r == calibrate_fit(spooler, Database, cal)
       IN /\ spooler' = Spooler_stop(r.self)
          /\ Database' = r.db
    /\ worker' = [worker EXCEPT !.pc = "calibrated", !.steps = Append(@, "calibrate")]
    /\ event' = Event("calibrate", TRUE, FALSE)
    /\ UNCHANGED <<gui, fan, extruder, fiber_camera, cal, now, budget, camera_calibrate>>

\* line 39
CalibrateReturn ==
    /\ worker.pc = "calibrated"
    /\ gui' = [gui EXCEPT !.start_motor_calibration = FALSE]
    /\ worker' = [worker EXCEPT !.pc = "motor"]
    /\ event' = Event("calibrate_return", TRUE, FALSE)
    /\ UNCHANGED <<fan, spooler, extruder, fiber_camera, Database, cal, now, budget, camera_calibrate>>

\* a closed-loop motor step that does not wait for calibrate to return
MotorStep_concurrent ==
    /\ worker.pc \in {"motor", "calibrate"}
    /\ \E position \in Positions :
         LET called == gui.dc_motor_close_loop_enabled
             r == dc_motor_close_loop_control(spooler, Database, gui,
                      worker.current_time, TRUE, position, TRUE)
         IN /\ spooler' = IF called THEN r.self ELSE spooler
            /\ Database' = IF called THEN r.db ELSE Database
            /\ worker' = [worker EXCEPT
                            !.pc = IF @ = "motor" THEN "temperature" ELSE @,
                            !.steps = IF called
                                      THEN Append(@, "dc_motor_close_loop_control")
                                      ELSE @]
            /\ event' = IF called
                        THEN Event("dc_motor_close_loop_control", r.ran, r.caught)
                        ELSE Event("motor_skipped", FALSE, FALSE)
    /\ UNCHANGED <<gui, fan, extruder, fiber_camera, cal, now, budget, camera_calibrate>>

\* lines 41-42
MotorStep ==
    /\ worker.pc = "motor"
    /\ \E fault \in Faults({"sensor", "pwm"}), position \in Positions :
         LET called == gui.dc_motor_close_loop_enabled
             r == dc_motor_close_loop_control(spooler, Database, gui,
                      worker.current_time, fault # "sensor", position, fault # "pwm")
         IN /\ spooler' = IF called THEN r.self ELSE spooler
            /\ Database' = IF called THEN r.db ELSE Database
            /\ worker' = [worker EXCEPT
                            !.pc = "temperature",
                            !.steps = IF called
                                      THEN Append(@, "dc_motor_close_loop_control")
                                      ELSE @]
            /\ budget' = IF called /\ r.ran THEN Injected(fault) ELSE budget
            /\ event' = IF called
                        THEN Event("dc_motor_close_loop_control", r.ran, r.caught)
                        ELSE Event("motor_skipped", FALSE, FALSE)
    /\ UNCHANGED <<gui, fan, extruder, fiber_camera, cal, now, camera_calibrate>>

\* a temperature step that does not look at gui.device_started
TemperatureStep_always ==
    /\ worker.pc = "temperature"
    /\ \E voltage \in Voltages :
         LET r == temperature_control_loop(extruder, Database,
                      worker.current_time, TRUE, voltage, TRUE)
         IN /\ extruder' = r.self
            /\ Database' = r.db
            /\ worker' = [worker EXCEPT
                            !.pc = "stepper",
                            !.steps = Append(@, "temperature_control_loop")]
            /\ event' = Event("temperature_control_loop", r.ran, r.caught)
    /\ UNCHANGED <<gui, fan, spooler, fiber_camera, cal, now, budget, camera_calibrate>>

\* lines 44-45
TemperatureStep ==
    /\ worker.pc = "temperature"
    /\ \E fault \in Faults({"sensor", "pwm"}), voltage \in Voltages :
         LET called == gui.device_started
             r == temperature_control_loop(extruder, Database,
                      worker.current_time, fault # "sensor", voltage, fault # "pwm")
         IN /\ extruder' = IF called THEN r.self ELSE extruder
            /\ Database' = IF called THEN r.db ELSE Database
            /\ worker' = [worker EXCEPT
                            !.pc = IF called THEN "stepper" ELSE "camera",
                            !.steps = IF called
                                      THEN Append(@, "temperature_control_loop")
                                      ELSE @]
            /\ budget' = IF called /\ r.ran THEN Injected(fault) ELSE budget
            /\ event' = IF called
                        THEN Event("temperature_control_loop", r.ran, r.caught)
                        ELSE Event("device_not_started", FALSE, FALSE)
    /\ UNCHANGED <<gui, fan, spooler, fiber_camera, cal, now, camera_calibrate>>

\* line 46
StepperStep ==
    /\ worker.pc = "stepper"
    /\ LET r == stepper_control_loop(extruder, Database, gui)
       IN /\ extruder' = r.self
          /\ Database' = r.db
          /\ event' = Event("stepper_control_loop", TRUE, r.caught)
    /\ worker' = [worker EXCEPT !.pc = "camera",
                                !.steps = Append(@, "stepper_control_loop")]
    /\ UNCHANGED <<gui, fan, spooler, fiber_camera, cal, now, budget, camera_calibrate>>

\* lines 48-49
CameraStep ==
    /\ worker.pc = "camera"
    /\ \E frame \in Frames :
         LET called == gui.camera_feedback_enabled
             r == camera_feedback(fiber_camera, Database, gui,
                                  worker.current_time, frame)
         IN /\ fiber_camera' = IF called THEN r.self ELSE fiber_camera
            /\ Database' = IF called THEN r.db ELSE Database
            /\ worker' = [worker EXCEPT
                            !.pc = "fan",
                            !.steps = IF called THEN Append(@, "camera_feedback") ELSE @]
            /\ event' = IF called THEN Event("camera_feedback", TRUE, r.caught)
                        ELSE Event("camera_skipped", FALSE, FALSE)
            /\ camera_calibrate' =
                 IF called /\ ~frame.raises /\ CalibrationReading(camera_calibrate)
                 THEN [camera_calibrate EXCEPT !.overlapped = TRUE]
                 ELSE camera_calibrate
    /\ UNCHANGED <<gui, fan, spooler, extruder, cal, now, budget>>

\* line 51
FanStep ==
    /\ worker.pc = "fan"
    /\ \E fault \in Faults({"pwm"}) :
         LET r == Fan_control_loop(fan, Database, fault # "pwm")
         IN /\ fan' = r.self
            /\ Database' = r.db
            /\ worker' = [worker EXCEPT !.pc = "sleep",
                                        !.steps = Append(@, "control_loop")]
            /\ budget' = Injected(fault)
            /\ event' = Event("control_loop", TRUE, r.caught)
    /\ UNCHANGED <<gui, spooler, extruder, fiber_camera, cal, now, camera_calibrate>>

\* line 52
Sleep ==
    /\ worker.pc = "sleep"
    /\ \E d \in TickDurations : now' = now + d
    /\ worker' = [worker EXCEPT !.pc = "tick", !.ticks = @ + 1]
    /\ event' = Event("sleep", TRUE, FALSE)
    /\ UNCHANGED <<gui, fan, spooler, extruder, fiber_camera, Database, cal, budget, camera_calibrate>>

\* an except clause that stops the actuators and lets the loop go on
Handler_continue ==
    /\ worker.pc = "handler"
    /\ fan' = Fan_stop(fan)
    /\ spooler' = Spooler_stop(spooler)
    /\ worker' = [worker EXCEPT !.pc = "sleep"]
    /\ event' = Event("handler", TRUE, TRUE)
    /\ UNCHANGED <<gui, extruder, fiber_camera, Database, cal, now, budget, camera_calibrate>>

\* lines 53-62: the except clause of the loop.  Extruder defines no stop
\* method, so extruder.stop() raises AttributeError, which the inner except
\* swallows; when fan.stop() raises, spooler.stop() is not reached.
Handler ==
    /\ worker.pc = "handler"
    /\ \E fault \in Faults({"fan.stop"}) :
         /\ fan' = IF fault = "none" THEN Fan_stop(fan) ELSE fan
         /\ spooler' = IF fault = "none" THEN Spooler_stop(spooler) ELSE spooler
         /\ budget' = Injected(fault)
    /\ worker' = [worker EXCEPT !.pc = "stopped"]
    /\ event' = Event("handler", TRUE, TRUE)
    /\ UNCHANGED <<gui, extruder, fiber_camera, Database, cal, now, camera_calibrate>>

Worker ==
    \/ Startup \/ Tick \/ CalibrateStep \/ CalibrateFit \/ CalibrateReturn
    \/ MotorStep \/ TemperatureStep \/ StepperStep \/ CameraStep \/ FanStep
    \/ Sleep \/ Handler

---------------------------------------------------------------------------
(* user_interface.py: the button callbacks, run by the GUI thread *)

\* a button press, while the run's presses last
Pressed ==
    /\ budget.commands < MaxCommands
    /\ budget' = [budget EXCEPT !.commands = @ + 1]

\* UserInterface.set_motor_close_loop
\* a "Stop Motor" button that also stops the spool-motor PWM
set_motor_close_loop_stop ==
    /\ Pressed
    /\ gui' = [gui EXCEPT !.dc_motor_close_loop_enabled = ~@]
    /\ spooler' = IF gui.dc_motor_close_loop_enabled THEN Spooler_stop(spooler)
                  ELSE spooler
    /\ UNCHANGED <<fan, extruder, fiber_camera, Database, worker, cal, now, event, camera_calibrate>>

set_motor_close_loop ==
    /\ Pressed
    /\ gui' = [gui EXCEPT !.dc_motor_close_loop_enabled = ~@]
    /\ UNCHANGED <<fan, spooler, extruder, fiber_camera, Database, worker, cal, now, event, camera_calibrate>>

\* UserInterface.set_camera_feedback
set_camera_feedback ==
    /\ Pressed
    /\ gui' = [gui EXCEPT !.camera_feedback_enabled = ~@]
    /\ UNCHANGED <<fan, spooler, extruder, fiber_camera, Database, worker, cal, now, event, camera_calibrate>>

\* UserInterface.set_start_device
set_start_device ==
    /\ Pressed
    /\ ~gui.device_started
    /\ gui' = [gui EXCEPT !.device_started = TRUE]
    /\ UNCHANGED <<fan, spooler, extruder, fiber_camera, Database, worker, cal, now, event, camera_calibrate>>

\* The command "start motor calibration" (spec, section 6): no callback of
\* user_interface.py sets the flag that hardware_control reads at line 37
start_motor_calibration ==
    /\ Pressed
    /\ ~gui.start_motor_calibration
    /\ gui' = [gui EXCEPT !.start_motor_calibration = TRUE]
    /\ UNCHANGED <<fan, spooler, extruder, fiber_camera, Database, worker, cal, now, event, camera_calibrate>>

Commands ==
    \/ set_motor_close_loop \/ set_camera_feedback \/ set_start_device
    \/ start_motor_calibration

Next == Worker \/ Commands

Spec == Init /\ [][Next]_vars

---------------------------------------------------------------------------
(* The program with the camera calibration of the GUI thread: the worker   *)
(* runs its loop while the "Calibrate camera" callback runs, no motor      *)
(* calibration being requested.                                            *)

\* the wire diameters the user enters in the dialog, in 1e-4 mm
DialogDiameters == {3500}
\* the frames FiberCamera.calibrate reads
CalibrationFrames == {GoodFrame}

\* UserInterface.set_calibrate_camera, FiberCamera.calibrate lines 157-171:
\* the dialog, answered or cancelled
CalibrateCameraDialog(diameters) ==
    /\ Pressed
    /\ camera_calibrate.pc = "idle"
    /\ \E ok \in BOOLEAN, diameter_mm \in diameters :
         camera_calibrate' =
             IF ok
             THEN [FiberCamera_calibrate_locals EXCEPT
                      !.pc = "frames", !.diameter_mm = diameter_mm,
                      !.overlapped = camera_calibrate.overlapped]
             ELSE camera_calibrate
    /\ UNCHANGED <<gui, fan, spooler, extruder, fiber_camera, Database, worker, cal, now, event>>

set_calibrate_camera == CalibrateCameraDialog(DialogDiameters)

\* FiberCamera.calibrate lines 173-184: one frame
CalibrateCameraRead(frames) ==
    /\ camera_calibrate.pc = "frames"
    /\ camera_calibrate.frames_read < Camera_num_samples
    /\ \E frame \in frames :
         camera_calibrate' = FiberCamera_calibrate_frame(camera_calibrate, frame)
    /\ UNCHANGED <<gui, fan, spooler, extruder, fiber_camera, Database, worker, cal,
                   now, budget, event>>

CalibrateCameraFrame == CalibrateCameraRead(CalibrationFrames)

\* FiberCamera.calibrate lines 186-192: the coefficient, set and stored
CalibrateCameraWrite ==
    /\ camera_calibrate.pc = "frames"
    /\ camera_calibrate.frames_read = Camera_num_samples
    /\ LET coefficient == FiberCamera_calibrate_coefficient(camera_calibrate)
       IN /\ fiber_camera' = [fiber_camera EXCEPT !.diameter_coefficient = coefficient]
          /\ Database' = update_calibration_data(Database, "diameter_coefficient",
                                                 coefficient)
    /\ camera_calibrate' = [camera_calibrate EXCEPT !.pc = "idle"]
    /\ UNCHANGED <<gui, fan, spooler, extruder, worker, cal, now, budget, event>>

CameraNext ==
    \/ Startup \/ Tick \/ MotorStep \/ TemperatureStep \/ StepperStep
    \/ CameraStep \/ FanStep \/ Sleep
    \/ set_camera_feedback \/ set_start_device
    \/ set_calibrate_camera \/ CalibrateCameraFrame \/ CalibrateCameraWrite

CameraSpec == Init /\ [][CameraNext]_vars

---------------------------------------------------------------------------
(* The GUI thread's camera timer (user_interface.py:223-225) next to the   *)
(* worker's loop.                                                          *)

\* the frames the timer's capture.read() returns
TimerFrames == {GoodFrame, NoFrame}

\* timer.timeout -> FiberCamera.camera_loop
CameraLoop ==
    /\ budget.calls < MaxCalls
    /\ budget' = [budget EXCEPT !.calls = @ + 1]
    /\ \E frame \in TimerFrames :
         LET r == camera_loop(fiber_camera, Database, gui, now, frame)
         IN /\ fiber_camera' = r.self
            /\ Database' = r.db
    /\ event' = Event("camera_loop", TRUE, FALSE)
    /\ UNCHANGED <<gui, fan, spooler, extruder, worker, cal, camera_calibrate, now>>

TimerNext ==
    \/ Startup \/ Tick \/ MotorStep \/ TemperatureStep \/ StepperStep
    \/ CameraStep \/ FanStep \/ Sleep
    \/ set_camera_feedback \/ set_start_device
    \/ CameraLoop

TimerSpec == Init /\ [][TimerNext]_vars

---------------------------------------------------------------------------
(* The step methods called directly, in any order and with any time gap    *)
(* between calls, on objects constructed and started as hardware_control   *)
(* does.                                                                   *)

\* time between two calls, in cs: the gate's limit, just over it, and 2 s
Gaps == {10, 11, 200}
StepVoltages == {3000, 25000}
StepPositions == {0, 4704}
Steep == [ motor_slope |-> 1000, motor_intercept |-> 500,
           diameter_coefficient |-> 78125 ]
StepCalibrations == {Uncalibrated, Calibrated, Steep}

StepInit ==
    /\ \E c \in StepCalibrations :
         /\ Database = Database_init(c)
         /\ spooler = Spooler_start(Spooler_init(Database_init(c)), 0)
         /\ fiber_camera = FiberCamera_init(Database_init(c))
    /\ gui = UserInterface_init
    /\ fan = Fan_start(Fan_init, 4500)
    /\ extruder = Extruder_init
    /\ worker = [Worker_init EXCEPT !.pc = "called"]
    /\ cal = calibrate_locals
    /\ camera_calibrate = FiberCamera_calibrate_locals
    /\ now = 0
    /\ budget = [commands |-> 0, faults |-> 0, calls |-> 0]
    /\ event = Event("main", FALSE, FALSE)

\* one more call, gap after the previous one; current_time is the time since
\* construction.  worker.steps keeps the calls made: method, time and input.
Called(gap, op, input) ==
    /\ budget.calls < MaxCalls
    /\ budget' = [budget EXCEPT !.calls = @ + 1]
    /\ now' = now + gap
    /\ worker' = [worker EXCEPT
                    !.current_time = now + gap,
                    !.steps = Append(@, [op |-> op, current_time |-> now + gap,
                                         input |-> input])]

TemperatureCall(gaps, voltages) ==
    \E gap \in gaps, voltage \in voltages :
      LET r == temperature_control_loop(extruder, Database, now + gap, TRUE, voltage, TRUE)
      IN /\ Called(gap, "temperature_control_loop", voltage)
         /\ extruder' = r.self
         /\ Database' = r.db
         /\ event' = Event("temperature_control_loop", r.ran, r.caught)
         /\ UNCHANGED <<gui, fan, spooler, fiber_camera, cal, camera_calibrate>>

MotorCall(gaps, positions) ==
    \E gap \in gaps, position \in positions :
      LET r == dc_motor_close_loop_control(spooler, Database, gui, now + gap,
                                           TRUE, position, TRUE)
      IN /\ Called(gap, "dc_motor_close_loop_control", position)
         /\ spooler' = r.self
         /\ Database' = r.db
         /\ event' = Event("dc_motor_close_loop_control", r.ran, r.caught)
         /\ UNCHANGED <<gui, fan, extruder, fiber_camera, cal, camera_calibrate>>

CascadeCall(gaps, positions) ==
    \E gap \in gaps, position \in positions :
      LET r == motor_control_loop(spooler, Database, gui, now + gap,
                                  TRUE, position, TRUE)
      IN /\ Called(gap, "motor_control_loop", position)
         /\ spooler' = r.self
         /\ Database' = r.db
         /\ event' = Event("motor_control_loop", r.ran, r.caught)
         /\ UNCHANGED <<gui, fan, extruder, fiber_camera, cal, camera_calibrate>>

CameraCall(gaps, frames) ==
    \E gap \in gaps, frame \in frames :
      LET r == camera_feedback(fiber_camera, Database, gui, now + gap, frame)
      IN /\ Called(gap, "camera_feedback", frame)
         /\ fiber_camera' = r.self
         /\ Database' = r.db
         /\ event' = Event("camera_feedback", TRUE, r.caught)
         /\ UNCHANGED <<gui, fan, spooler, extruder, cal, camera_calibrate>>

Call_temperature_control_loop == TemperatureCall(Gaps, StepVoltages)
Call_dc_motor_close_loop_control == MotorCall(Gaps, StepPositions)
Call_motor_control_loop == CascadeCall(Gaps, StepPositions)
Call_camera_feedback == CameraCall(Gaps, Frames)

StepNext ==
    \/ Call_temperature_control_loop \/ Call_dc_motor_close_loop_control
    \/ Call_motor_control_loop \/ Call_camera_feedback

StepSpec == StepInit /\ [][StepNext]_vars

---------------------------------------------------------------------------
(* The temperature step, the closed-loop motor step and the camera step    *)
(* called directly with boundary inputs: a clock that has not advanced,    *)
(* thermistor voltages at the rails, encoder counts 0.1 s apart, frames    *)
(* with fewer than two lines.                                              *)

SampleGaps == {0, 10, 11}
\* 0 V, 0.3 V, the 3.3 V supply and 3.6 V
SampleVoltages == {0, 3000, 33000, 36000}
SamplePositions == {0, 100, 4804}
OneLineFrame ==
    [raises |-> FALSE, success |-> TRUE, none |-> FALSE, lines |-> << <<10, 0, 20, 50>> >>]
EmptyFrame == [raises |-> FALSE, success |-> TRUE, none |-> FALSE, lines |-> <<>>]
NoLinesFrame == [raises |-> FALSE, success |-> TRUE, none |-> TRUE, lines |-> <<>>]
SampleFrames == {GoodFrame, OneLineFrame, EmptyFrame, NoLinesFrame}

SampleInit ==
    /\ Database = Database_init(Calibrated)
    /\ spooler = Spooler_start(Spooler_init(Database_init(Calibrated)), 0)
    /\ fiber_camera = FiberCamera_init(Database_init(Calibrated))
    /\ gui = UserInterface_init
    /\ fan = Fan_start(Fan_init, 4500)
    /\ extruder = Extruder_init
    /\ worker = [Worker_init EXCEPT !.pc = "called"]
    /\ cal = calibrate_locals
    /\ camera_calibrate = FiberCamera_calibrate_locals
    /\ now = 0
    /\ budget = [commands |-> 0, faults |-> 0, calls |-> 0]
    /\ event = Event("main", FALSE, FALSE)

Sample_temperature_control_loop == TemperatureCall(SampleGaps, SampleVoltages)
Sample_dc_motor_close_loop_control == MotorCall(SampleGaps, SamplePositions)
Sample_camera_feedback == CameraCall({11}, SampleFrames)

SampleNext ==
    \/ Sample_temperature_control_loop \/ Sample_dc_motor_close_loop_control
    \/ Sample_camera_feedback

SampleSpec == SampleInit /\ [][SampleNext]_vars

---------------------------------------------------------------------------
(* The encoder count at full width. read_encoder assembles an unsigned     *)
(* 32-bit count from four bytes; a count is kept here as its two 16-bit    *)
(* halves, value = high * 65536 + low, and a difference of two counts as   *)
(* the same pair with high in -65536..65535, which is exact for Python's   *)
(* unbounded integers. The actions are the part of the motor step and of a *)
(* calibration sample that reads the encoder and differences it; the RPM   *)
(* of a difference near 2^32 is outside the range of the model's integers. *)

\* (count_1 << 24) + (count_2 << 16) + (count_3 << 8) + count_4
read_encoder(count_1, count_2, count_3, count_4) ==
    [high |-> count_1 * 256 + count_2, low |-> count_3 * 256 + count_4]

\* current_position - previous_position
delta_position(current_position, previous_position) ==
    LET low == current_position.low - previous_position.low
        borrow == IF low < 0 THEN 1 ELSE 0
    IN [high |-> current_position.high - previous_position.high - borrow,
        low |-> low + borrow * 65536]

\* the bytes of the counts 100, 4804, 2^32 - 100 and 2^32 - 4804
EncoderBytes ==
    {<<0, 0, 0, 100>>, <<0, 0, 18, 196>>, <<255, 255, 255, 156>>, <<255, 255, 237, 60>>}

EncoderInit ==
    /\ Database = Database_init(Calibrated)
    /\ spooler = [Spooler_start(Spooler_init(Database_init(Calibrated)), 0)
                    EXCEPT !.previous_position = read_encoder(0, 0, 0, 0)]
    /\ fiber_camera = FiberCamera_init(Database_init(Calibrated))
    /\ gui = UserInterface_init
    /\ fan = Fan_start(Fan_init, 4500)
    /\ extruder = Extruder_init
    /\ worker = [Worker_init EXCEPT !.pc = "called"]
    /\ cal = calibrate_locals
    /\ camera_calibrate = FiberCamera_calibrate_locals
    /\ now = 0
    /\ budget = [commands |-> 0, faults |-> 0, calls |-> 0]
    /\ event = Event("main", FALSE, FALSE)

\* dc_motor_close_loop_control up to the update of the previous values
EncoderStep ==
    \E gap \in {10, 11}, bytes \in EncoderBytes :
      LET current_time == now + gap
          current_position == read_encoder(bytes[1], bytes[2], bytes[3], bytes[4])
      IN /\ Called(gap, "dc_motor_close_loop_control", current_position)
         /\ IF SpoolerGate(current_time, spooler.previous_time)
            THEN /\ spooler' = spooler
                 /\ event' = Event("dc_motor_close_loop_control", FALSE, FALSE)
            ELSE /\ spooler' = [spooler EXCEPT !.motor_calibration = TRUE,
                                               !.previous_position = current_position,
                                               !.previous_time = current_time]
                 /\ event' = [op |-> "dc_motor_close_loop_control",
                              ran |-> TRUE, caught |-> FALSE,
                              delta_position |->
                                  delta_position(current_position,
                                                 spooler.previous_position)]
         /\ UNCHANGED <<gui, fan, extruder, Database, fiber_camera, cal, camera_calibrate>>

\* one sample of calibrate: two reads of the encoder 0.1 s apart
EncoderSample ==
    \E start \in EncoderBytes, end \in EncoderBytes :
      LET start_position == read_encoder(start[1], start[2], start[3], start[4])
          end_position == read_encoder(end[1], end[2], end[3], end[4])
      IN /\ Called(SAMPLE_DURATION, "calibrate",
                   [start_position |-> start_position, end_position |-> end_position])
         /\ event' = [op |-> "calibrate", ran |-> TRUE, caught |-> FALSE,
                      delta_position |-> delta_position(end_position, start_position)]
         /\ UNCHANGED <<gui, fan, spooler, extruder, Database, fiber_camera, cal,
                        camera_calibrate>>

EncoderNext == EncoderStep \/ EncoderSample

EncoderSpec == EncoderInit /\ [][EncoderNext]_vars

---------------------------------------------------------------------------
(* FiberCamera.calibrate on its own: the dialog answered with a reference  *)
(* diameter, 50 frames of which any may fail to be captured or show fewer  *)
(* than two lines, then the coefficient written.                           *)

\* reference diameters entered in the dialog, in 1e-4 mm: 0.35 mm and 0.5 mm
ReferenceDiameters == {3500, 5000}
\* two fiber edges 64 px apart
TwoLines == << <<10, 0, 10, 50>>, <<74, 0, 74, 50>> >>
NarrowFrame == [raises |-> FALSE, success |-> TRUE, none |-> FALSE, lines |-> TwoLines]
ReferenceFrames == {NarrowFrame, OneLineFrame, NoLinesFrame, NoFrame}

Calibration_dialog == CalibrateCameraDialog(ReferenceDiameters)
Calibration_frame == CalibrateCameraRead(ReferenceFrames)

CalibrationNext == Calibration_dialog \/ Calibration_frame \/ CalibrateCameraWrite

CalibrationSpec == SampleInit /\ [][CalibrationNext]_vars

---------------------------------------------------------------------------
(* Thermistor.get_temperature called over and over, so that the reading    *)
(* history grows past the averaging window.                                *)

MaxReadings == 12
\* 0 V (no reading), 0.3 V and 2.5 V
ReadVoltages == {0, 3000, 25000}

ThermistorRead ==
    /\ Len(Database.temperature_readings) < MaxReadings
    /\ \E voltage \in ReadVoltages :
         LET t == get_temperature(Database.temperature_readings, voltage)
         IN /\ Database' = [Database EXCEPT !.temperature_readings = t.readings]
            /\ event' = [op |-> "get_temperature", ran |-> TRUE, caught |-> t.raised,
                         voltage |-> voltage, value |-> t.value]
    /\ UNCHANGED <<gui, fan, spooler, extruder, fiber_camera, worker, cal,
                   camera_calibrate, now, budget>>

ThermistorSpec == SampleInit /\ [][ThermistorRead]_vars

---------------------------------------------------------------------------
(* The diameter cascade fed by the camera step: frames with and without a  *)
(* measurable fiber, then motor_control_loop.                              *)

CascadeFrames == {GoodFrame, OneLineFrame}

Cascade_camera_feedback == CameraCall({11}, CascadeFrames)
Cascade_motor_control_loop == CascadeCall({10, 11}, StepPositions)

CascadeNext == Cascade_camera_feedback \/ Cascade_motor_control_loop

CascadeSpec == StepInit /\ [][CascadeNext]_vars

---------------------------------------------------------------------------
(* Properties *)

Last(seq) == seq[Len(seq)]

\* the step just taken is a direct call of the named method
JustCalled(op) == budget'.calls = budget.calls + 1 /\ event'.op = op

\* C1: a call of temperature_control_loop or dc_motor_close_loop_control made
\* when current_time - previous_time <= 0.1 changes nothing: the PID state,
\* every telemetry list and the PWM duty cycles are as before the call.
C1_GatedCallChangesNothing ==
    [][ /\ ( /\ JustCalled("temperature_control_loop")
             /\ worker'.current_time - extruder.previous_time <= Extruder_SAMPLE_TIME )
           => /\ extruder' = extruder
              /\ Database' = Database
              /\ spooler' = spooler
        /\ ( /\ JustCalled("dc_motor_close_loop_control")
             /\ worker'.current_time - spooler.previous_time <= Spooler_SAMPLE_TIME )
           => /\ spooler' = spooler
              /\ Database' = Database
              /\ extruder' = extruder ]_vars

\* a temperature call made exactly SAMPLE_TIME after an accepted one returned
\* at the gate
C1_Witness ==
    /\ event = Event("temperature_control_loop", FALSE, FALSE)
    /\ Len(Database.temperature_timestamps) > 0
    /\ worker.current_time - extruder.previous_time = Extruder_SAMPLE_TIME

\* C2: every duty cycle written to the heater PWM or to the spool-motor PWM
\* by a control step lies in [0, 100].
C2_DutyCycleInRange ==
    /\ extruder.heater_pwm.dc \in 0..10000
    /\ spooler.pwm.dc \in 0..10000

\* a motor step has driven the spool motor to the top of the range and
\* the temperature step has written the heater
C2_Witness ==
    /\ event.op \in {"dc_motor_close_loop_control", "motor_control_loop"}
    /\ event.ran
    /\ spooler.pwm.dc = 10000
    /\ Len(Database.temperature_pid_output) > 0
    /\ extruder.heater_pwm.dc = 10000

\* C3: after any sequence of motor steps integral_motor is within [-100, 100].
C3_IntegralMotorBounded ==
    spooler.integral_motor \in -1000000..1000000

\* a cascade step has saturated the accumulator
C3_Witness ==
    /\ event = Event("motor_control_loop", TRUE, FALSE)
    /\ spooler.integral_motor = 1000000

\* C4: the integral accumulator of every PID loop, Extruder.integral included,
\* lies within a fixed anti-windup range: the motor loop's within [-100, 100],
\* the diameter loop's within [-0.5, 0.5], and the temperature loop's within
\* the widest range the program configures, [-100, 100].
C4_EveryIntegralBounded ==
    /\ spooler.integral_motor \in -1000000..1000000
    /\ spooler.integral_diameter \in -500000..500000
    /\ extruder.integral \in -1000000..1000000

\* C5: when Spooler.calibrate has exited, by completion, by interrupt or by
\* an exception raised during the sweep, the spool-motor drive is stopped or
\* at zero.
C5_CalibrateExitsStopped ==
    worker.pc \in {"calibrated", "handler"}
        => (~spooler.pwm.running \/ spooler.pwm.dc = 0)

\* C6: while Spooler.calibrate is in progress no closed-loop motor step
\* executes and only the calibration writes the spool-motor duty cycle; a
\* closed-loop motor step runs only when calibrate is not in progress.
C6_NoMotorStepDuringCalibrate ==
    [][ /\ worker.pc = "calibrate"
           => /\ worker'.steps \in {worker.steps, Append(worker.steps, "calibrate")}
              /\ spooler'.integral_motor = spooler.integral_motor
              /\ spooler'.previous_error_motor = spooler.previous_error_motor
              /\ spooler'.previous_time = spooler.previous_time
              /\ Database'.spooler_timestamps = Database.spooler_timestamps
              /\ spooler'.pwm # spooler.pwm => event'.op = "calibrate"
        /\ ( /\ worker'.steps # worker.steps
             /\ worker'.steps # <<>>
             /\ Last(worker'.steps) = "dc_motor_close_loop_control" )
           => worker.pc = "motor" ]_vars

\* the sweep is under way with the closed loop enabled, after a closed-loop
\* step of an earlier tick
C6_Witness ==
    /\ worker.pc = "calibrate"
    /\ cal.duty_cycle > FIRST_DUTY_CYCLE
    /\ gui.dc_motor_close_loop_enabled
    /\ Len(Database.spooler_timestamps) > 0

\* C7: between the first frame read of FiberCamera.calibrate and its write of
\* diameter_coefficient, the worker's camera_feedback reads no frame.
C7_NoFeedbackDuringCameraCalibration ==
    ~camera_calibrate.overlapped

C9_FailedStepIsNoOp ==
    [][ /\ (worker.pc = "temperature" /\ worker'.pc = "stepper" /\ event'.caught)
           => /\ extruder'.heater_pwm = extruder.heater_pwm
              /\ extruder'.previous_time = extruder.previous_time
              /\ extruder'.integral = extruder.integral
              /\ extruder'.previous_error = extruder.previous_error
        /\ (worker.pc = "motor" /\ worker'.pc = "temperature" /\ event'.caught)
           => /\ spooler'.pwm = spooler.pwm
              /\ spooler'.previous_time = spooler.previous_time
              /\ spooler'.integral_motor = spooler.integral_motor
              /\ spooler'.previous_error_motor = spooler.previous_error_motor ]_vars

\* C10: after a failed startup hardware_control has returned: no tick, no
\* control step, no calibration and no telemetry append follows.
C10_FailedStartupRunsNothing ==
    [][ (event.op = "startup" /\ event.caught)
           => /\ UNCHANGED <<worker, Database, fan, spooler, extruder, fiber_camera,
                             cal, now, event>>
              /\ worker.pc = "returned"
              /\ worker.ticks = 0
              /\ worker.steps = <<>>
              /\ Database = Database_init(Database.calibration) ]_vars

\* spooler.start failed after fan.start succeeded, and buttons were pressed
\* afterwards
C10_Witness ==
    /\ worker.pc = "returned"
    /\ fan.pwm.running
    /\ ~spooler.pwm.exists
    /\ gui.device_started
    /\ gui.dc_motor_close_loop_enabled

\* the sequence s holds the element x
Holds(s, x) == \E i \in 1..Len(s) : s[i] = x

\* C11: while gui.device_started is False the temperature step does not run
\* and the heater duty cycle is 0.
C11_NotStartedHeaterOff ==
    ~gui.device_started
        => /\ extruder.heater_pwm.dc = 0
           /\ ~Holds(worker.steps, "temperature_control_loop")
           /\ ~Holds(worker.steps, "stepper_control_loop")
           /\ Database.temperature_timestamps = <<>>
           /\ Database.temperature_readings = <<>>
           /\ extruder.previous_time = 0
           /\ extruder.integral = 0

\* the second tick is past its temperature statement, the heater PWM is
\* running, and the device was never started
C11_Witness ==
    /\ ~gui.device_started
    /\ worker.ticks >= 1
    /\ worker.pc = "camera"
    /\ extruder.heater_pwm.running


\* the argument of the direct call just made
Input == Last(worker'.steps).input

\* a voltage get_temperature is to reject: near zero, or at or above the supply
DegenerateVoltage(voltage) == voltage < VOLTAGE_THRESHOLD \/ voltage >= VOLTAGE_SUPPLY

\* C12: for every degenerate voltage (near zero, or at or above 3.3 V)
\* get_temperature returns 0 without raising and without appending to
\* Database.temperature_readings: the temperature step that called it is not
\* cut short by an exception and computes its error from a temperature of 0.
C12_DegenerateVoltageGivesSentinel ==
    [][JustCalled("temperature_control_loop") /\ event'.ran /\ DegenerateVoltage(Input)
         => /\ ~event'.caught
            /\ Database'.temperature_readings = Database.temperature_readings
            /\ Len(Database'.temperature_error) = Len(Database.temperature_error) + 1
            /\ Last(Database'.temperature_error) = target_temperature - 0]_vars

\* C13: when the thermistor voltage is near zero, so that get_temperature
\* returns the no-reading sentinel, the temperature step changes neither the
\* heater duty cycle nor the PID state (integral, previous_error).
C13_SentinelStepIsNoOp ==
    [][JustCalled("temperature_control_loop") /\ event'.ran /\ Input < VOLTAGE_THRESHOLD
         => /\ extruder'.heater_pwm = extruder.heater_pwm
            /\ extruder'.integral = extruder.integral
            /\ extruder'.previous_error = extruder.previous_error]_vars

\* C14: a temperature or motor step that executes has delta_time =
\* current_time - previous_time > 0, so neither the derivative nor the RPM
\* divides by zero; a call made when the clock has not advanced past the stored
\* previous_time is skipped and changes nothing.
C14_ExecutedStepHasPositiveDeltaTime ==
    [][/\ JustCalled("temperature_control_loop") =>
            /\ event'.ran => worker'.current_time - extruder.previous_time > 0
            /\ worker'.current_time - extruder.previous_time <= 0 =>
                  ~event'.ran /\ extruder' = extruder /\ Database' = Database
       /\ JustCalled("dc_motor_close_loop_control") =>
            /\ event'.ran => worker'.current_time - spooler.previous_time > 0
            /\ worker'.current_time - spooler.previous_time <= 0 =>
                  ~event'.ran /\ spooler' = spooler /\ Database' = Database]_vars

\* both steps have executed at the current time, and the temperature step was
\* then called again with the clock unchanged
C14_Witness ==
    /\ now > 0
    /\ extruder.previous_time = now
    /\ spooler.previous_time = now
    /\ event = Event("temperature_control_loop", FALSE, FALSE)

\* C15: an executed motor step computes
\* RPM = (count_now - count_prev) / 4704 * 60 / (t_now - t_prev) from the
\* encoder count and time the Spooler holds from its last executed step, and
\* stores count_now and t_now as the new previous values. (In hundredths of an
\* RPM and centiseconds, 60 * 100 * 100 / 4704 = 12500 / 98.)
C15_RpmFromStoredPrevious ==
    [][JustCalled("dc_motor_close_loop_control") /\ event'.ran /\ ~event'.caught
         => /\ Len(Database'.spooler_rpm) = Len(Database.spooler_rpm) + 1
            /\ Last(Database'.spooler_rpm) =
                 ((Input - spooler.previous_position) * 12500)
                    \div (98 * (worker'.current_time - spooler.previous_time))
            /\ spooler'.previous_position = Input
            /\ spooler'.previous_time = worker'.current_time]_vars

\* two motor steps have executed, the second one from a count of 100 to 4804
C15_Witness ==
    /\ Len(Database.spooler_rpm) = 2
    /\ Len(worker.steps) = 2
    /\ worker.steps[1].input = 100
    /\ spooler.previous_position = 4804
    /\ event = Event("dc_motor_close_loop_control", TRUE, FALSE)

\* the motor step called with encoder count c at time t (in cs)
MotorSample(t, c) ==
    [op |-> "dc_motor_close_loop_control", current_time |-> t, input |-> c]

\* C16: from the initial Spooler, after the motor step was fed the counts
\* 0, 100, 4804 at times 0, 0.1 s, 0.2 s, the RPM of the last sample is
\* (4804 - 100) / 4704 * (60 / 0.1) = 600 (to within 1 RPM).
C16_ThirdSampleGives600 ==
    worker.steps = <<MotorSample(0, 0), MotorSample(10, 100), MotorSample(20, 4804)>>
      => /\ Database.spooler_rpm # <<>>
         /\ Last(Database.spooler_rpm) >= 59900
         /\ Last(Database.spooler_rpm) <= 60100
         /\ spooler.previous_position = 4804

\* the count went past 2^32 between the two reads: from the top 65536 counts
\* of the range to the bottom 65536
Wrapped(previous_position, current_position) ==
    previous_position.high = 65535 /\ current_position.high = 0

\* a difference of counts reduced modulo 2^32
Modulo32(delta) == [high |-> delta.high % 65536, low |-> delta.low]

\* C17: when the 32-bit encoder count wraps past 2^32 between two motor steps,
\* or between the two reads of a calibration sample, the delta-count used for
\* the RPM is the difference modulo 2^32: the true small movement, not a jump
\* of about 2^32 counts.
C17_DeltaToleratesWraparound ==
    [][/\ (JustCalled("dc_motor_close_loop_control") /\ event'.ran
            /\ Wrapped(spooler.previous_position, Input))
          => /\ event'.delta_position.high = 0
             /\ event'.delta_position
                  = Modulo32(delta_position(Input, spooler.previous_position))
       /\ (JustCalled("calibrate") /\ Wrapped(Input.start_position, Input.end_position))
          => /\ event'.delta_position.high = 0
             /\ event'.delta_position
                  = Modulo32(delta_position(Input.end_position, Input.start_position))]_vars

\* C18: for the four vertical lines at x = 10, 30, 70, 90,
\* get_fiber_diameter_noC returns ((30-10) + (90-70)) / 2 = 20 pixels (2000 in
\* hundredths of a pixel).
C18_FourLinesGiveTwenty ==
    /\ camera_calibrate.success
    /\ ~camera_calibrate.detected_lines.none
    /\ camera_calibrate.detected_lines.lines = FourLines
    => camera_calibrate.fiber_diameter = 2000

\* C19: for a captured frame whose line set is None, empty or a single line,
\* get_fiber_diameter and get_fiber_diameter_noC return 0 and camera_feedback
\* logs a diameter of 0 without raising.
C19_FewerThanTwoLinesGiveZero ==
    [][(/\ JustCalled("camera_feedback")
        /\ Input.success /\ ~Input.raises
        /\ (Input.none \/ Len(Input.lines) <= 1))
         => /\ get_fiber_diameter(fiber_camera, Input.none, Input.lines) = 0
            /\ get_fiber_diameter_noC(Input.none, Input.lines) = 0
            /\ ~event'.caught
            /\ Database'.diameter_readings = Append(Database.diameter_readings, 0)
            /\ Database'.camera_timestamps
                 = Append(Database.camera_timestamps, worker'.current_time)]_vars

\* the camera step has run on a frame without lines, on one with an empty
\* line set and on one with a single line
C19_Witness ==
    /\ Len(worker.steps) = 3
    /\ \A i \in 1..3 : worker.steps[i].op = "camera_feedback"
    /\ worker.steps[1].input = NoLinesFrame
    /\ worker.steps[2].input = EmptyFrame
    /\ worker.steps[3].input = OneLineFrame
    /\ Database.diameter_readings = <<0, 0, 0>>
    /\ event = Event("camera_feedback", TRUE, FALSE)

\* the pass of calibrate's loop just taken
CalibrationPass ==
    /\ camera_calibrate.pc = "frames"
    /\ camera_calibrate'.pc = "frames"
    /\ camera_calibrate'.frames_read = camera_calibrate.frames_read + 1

\* calibrate has just written the coefficient
CalibrationWritten == camera_calibrate.pc = "frames" /\ camera_calibrate'.pc = "idle"

\* C20: calibrate sums and counts only the strictly positive pixel widths of
\* the 50 frames (a failed capture or a width of 0 changes neither the sum nor
\* the count) and stores, in the FiberCamera and in the Database,
\* coefficient = reference diameter / (sum / count), e.g. 0.5 / 64 =
\* 0.0078125; when no sample was valid it stores the reference diameter itself.
C20_CoefficientFromPositiveSamples ==
    [][/\ CalibrationPass =>
            IF camera_calibrate'.success /\ camera_calibrate'.fiber_diameter > 0
            THEN /\ camera_calibrate'.accumulated_diameter
                      = camera_calibrate.accumulated_diameter
                          + camera_calibrate'.fiber_diameter
                 /\ camera_calibrate'.valid_samples = camera_calibrate.valid_samples + 1
            ELSE /\ camera_calibrate'.accumulated_diameter
                      = camera_calibrate.accumulated_diameter
                 /\ camera_calibrate'.valid_samples = camera_calibrate.valid_samples
       /\ CalibrationWritten =>
            /\ camera_calibrate.frames_read = Camera_num_samples
            /\ fiber_camera'.diameter_coefficient
                 = get_calibration_data(Database', "diameter_coefficient")
            /\ fiber_camera'.diameter_coefficient =
                 IF camera_calibrate.valid_samples = 0
                 THEN camera_calibrate.diameter_mm * 1000
                 ELSE (camera_calibrate.diameter_mm * 100000)
                        \div (camera_calibrate.accumulated_diameter
                                \div camera_calibrate.valid_samples)
            /\ (camera_calibrate.diameter_mm = 5000
                  /\ camera_calibrate.valid_samples > 0
                  /\ camera_calibrate.accumulated_diameter
                       = 6400 * camera_calibrate.valid_samples)
                 => fiber_camera'.diameter_coefficient = 78125]_vars

\* a calibration with 0.5 mm in which some of the 50 frames were discarded has
\* stored 0.5 / 64
C20_Witness ==
    /\ camera_calibrate.pc = "idle"
    /\ camera_calibrate.frames_read = Camera_num_samples
    /\ camera_calibrate.diameter_mm = 5000
    /\ camera_calibrate.valid_samples > 0
    /\ camera_calibrate.valid_samples < Camera_num_samples
    /\ fiber_camera.diameter_coefficient = 78125
    /\ get_calibration_data(Database, "diameter_coefficient") = 78125

\* calibrate has finished its 50 frames without a valid sample and has written
\* the coefficient
NoValidSample ==
    /\ camera_calibrate.pc = "idle"
    /\ camera_calibrate.frames_read = Camera_num_samples
    /\ camera_calibrate.valid_samples = 0

\* C21 as stated: when calibrate obtains no valid sample the coefficient, in
\* memory and as stored, is 1 mm/px (10000000 in units of 1e-7).
C21_NoSampleCoefficientIsOne ==
    NoValidSample =>
        /\ fiber_camera.diameter_coefficient = 10000000
        /\ get_calibration_data(Database, "diameter_coefficient") = 10000000

\* C21: when calibrate obtains no valid sample the averaged pixel width falls
\* back to 1, so the coefficient, in memory and as stored, is the reference
\* diameter entered in the dialog (diameter_mm / 1).
C21_NoSampleCoefficientIsReference ==
    NoValidSample =>
        /\ fiber_camera.diameter_coefficient = camera_calibrate.diameter_mm * 1000
        /\ get_calibration_data(Database, "diameter_coefficient")
             = camera_calibrate.diameter_mm * 1000

\* a calibration with 0.35 mm in which no frame gave a width
C21_Witness ==
    /\ NoValidSample
    /\ camera_calibrate.diameter_mm = 3500
    /\ fiber_camera.diameter_coefficient = 3500000

\* the steps called so far in the current tick include a before b, in that order
Before(a, b) ==
    \E i, j \in 1..Len(worker.steps) :
        i < j /\ worker.steps[i] = a /\ worker.steps[j] = b

\* C22: within a tick the enabled steps run in the order temperature step,
\* motor step, vision step: the motor step never precedes the temperature
\* step, and the vision step precedes neither.
C22_TemperatureMotorVision ==
    /\ ~Before("dc_motor_close_loop_control", "temperature_control_loop")
    /\ ~Before("camera_feedback", "dc_motor_close_loop_control")
    /\ ~Before("camera_feedback", "temperature_control_loop")

\* C23: frame capture and vision processing never run on the worker that
\* runs the PID loops: no tick of hardware_control calls camera_feedback, the
\* frames being read on the camera's own timer only.
C23_NoCaptureOnWorker ==
    \A i \in 1..Len(worker.steps) : worker.steps[i] # "camera_feedback"

\* C24: the diameter buffers and FiberCamera.previous_time have a single
\* writer: the timer's camera_loop and the worker's camera_feedback never both
\* write them in the same run.
C24_SingleWriter ==
    ~({"camera_loop", "camera_feedback"} \subseteq fiber_camera.writers)

\* C25: for as long as the Spooler's slope or intercept is the -1 sentinel the
\* Spooler reports itself as not calibrated (motor_calibration is False), also
\* after closed-loop motor steps have run and computed duty cycles.
C25_SentinelKeepsUncalibratedState ==
    (spooler.slope = -100 \/ spooler.intercept = -100) => ~spooler.motor_calibration

\* C26: the open-loop extrusion step, run with the device started, reads the
\* RPM setpoint and applies it: for a setpoint > 0 the stepper PWM gets the
\* frequency rpm * 200 / 60 and a duty cycle of 50 %, for a setpoint of 0 the
\* duty cycle 0; the step logs the setpoint and does not fail.
C26_StepperFollowsSetpoint ==
    event.op = "stepper_control_loop" =>
        /\ ~event.caught
        /\ Database.extruder_rpm # <<>>
        /\ IF Last(Database.extruder_rpm) > 0
           THEN /\ extruder.pwm.dc = 5000
                /\ extruder.frequency
                     = (Last(Database.extruder_rpm) * STEPS_PER_REVOLUTION) \div 60
           ELSE extruder.pwm.dc = 0

\* the sum of the last k elements of a sequence
RECURSIVE SumOfLast(_, _)
SumOfLast(s, k) ==
    IF k = 0 THEN 0 ELSE s[Len(s)] + SumOfLast(SubSeq(s, 1, Len(s) - 1), k - 1)

\* C27: after any sequence of valid readings the temperature returned by
\* get_temperature is the arithmetic mean of the last min(n, 10) raw
\* conversions, n being the number of conversions made so far, the newest
\* included.
C27_MeanOfLastTen ==
    event.op = "get_temperature" /\ event.voltage >= VOLTAGE_THRESHOLD =>
        LET n == Len(Database.temperature_readings)
            k == IF n < 10 THEN n ELSE 10
        IN /\ ~event.caught
           /\ n >= 1
           /\ event.value = SumOfLast(Database.temperature_readings, k) \div k

\* the twelfth conversion, the first two of which differ from it
C27_Witness ==
    /\ event.op = "get_temperature"
    /\ event.voltage = 25000
    /\ Len(Database.temperature_readings) = 12
    /\ Database.temperature_readings[1] # Database.temperature_readings[12]
    /\ Database.temperature_readings[2] # Database.temperature_readings[12]

\* the elements of a sequence that are not 0
NonZero(s) == SelectSeq(s, LAMBDA x : x # 0)

\* C28: the cascade treats a diameter measurement of 0 as no update: the
\* averaged diameter motor_control_loop uses is the mean of the last non-zero
\* readings, and when every reading is 0 the diameter PID state (integral,
\* previous error) is left as it was.
C28_ZeroReadingIsNoUpdate ==
    [][JustCalled("motor_control_loop") /\ event'.ran /\ ~event'.caught =>
         LET measured == NonZero(Database.diameter_readings)
             window == LastN(measured, Spooler_READINGS_TO_AVERAGE)
         IN IF measured = <<>>
            THEN /\ spooler'.integral_diameter = spooler.integral_diameter
                 /\ spooler'.previous_error_diameter = spooler.previous_error_diameter
            ELSE spooler'.previous_error_diameter
                   = gui.target_diameter - SumSeq(window) \div Len(window)]_vars

\* the cascade step just taken, repeated from the same state with a measured
\* diameter equal to the target (diameter error 0)
TwinStep ==
    motor_control_loop(spooler,
                       [Database EXCEPT !.diameter_readings = <<gui.target_diameter>>],
                       gui, worker'.current_time, TRUE, Input, TRUE)

\* C29: the RPM setpoint motor_control_loop hands to the inner motor PID
\* combines the feedforward with the diameter PID's trim: a step and its twin
\* that differs only in the diameter error get different setpoints (seen in
\* the inner loop's error, setpoint - current_rpm, the RPM being the same).
C29_SetpointDependsOnTrim ==
    [][JustCalled("motor_control_loop") /\ event'.ran /\ ~event'.caught =>
         (spooler'.previous_error_diameter # TwinStep.self.previous_error_diameter
            => spooler'.previous_error_motor # TwinStep.self.previous_error_motor)]_vars

\* the RPM the cascade step just taken computed from the encoder
CascadeRPM ==
    ((Input - spooler.previous_position) * 12500)
        \div (98 * (worker'.current_time - spooler.previous_time))

\* values of the feedforward RPM, in hundredths: below, inside and above 0..60
SetpointInputs == {-6000, 0, 3000, 6000, 12000}

\* C30 as stated: max(min(x, 0), 60) is 0 for every x, so the setpoint handed
\* to the inner motor PID is always 0.
C30_SetpointAlwaysZero ==
    [][JustCalled("motor_control_loop") /\ event'.ran /\ ~event'.caught =>
         /\ \A x \in SetpointInputs : ClampSetpoint(x) = 0
         /\ spooler'.previous_error_motor = 0 - CascadeRPM]_vars

\* C30: max(min(x, 0), 60) is 60 for every x, so the setpoint handed to the
\* inner motor PID is always 60 RPM.
C30_SetpointAlwaysSixty ==
    [][JustCalled("motor_control_loop") /\ event'.ran /\ ~event'.caught =>
         /\ \A x \in SetpointInputs : ClampSetpoint(x) = 6000
         /\ spooler'.previous_error_motor = 6000 - CascadeRPM]_vars

\* a cascade step has run to its end after one encoder revolution
C30_Witness ==
    /\ event = Event("motor_control_loop", TRUE, FALSE)
    /\ spooler.previous_position = 4704
    /\ Database.diameter_readings # <<>>

\* C31: when the loop of hardware_control has ended because of an exception,
\* every actuator has been stopped: the fan PWM, the spool-motor PWM, and the
\* extruder's heater and stepper PWM.
C31_AllActuatorsStoppedAtExit ==
    worker.pc = "stopped" =>
        /\ ~fan.pwm.running
        /\ ~spooler.pwm.running
        /\ ~extruder.heater_pwm.running
        /\ ~extruder.pwm.running

\* the telemetry the motor steps write
SpoolerTelemetry(db) ==
    <<db.spooler_timestamps, db.spooler_delta_time, db.spooler_setpoint, db.spooler_rpm>>

MotorCalibration(self, db) ==
    <<self.slope, self.intercept,
      get_calibration_data(db, "motor_slope"), get_calibration_data(db, "motor_intercept")>>

\* C33: a motor calibration that ends before the line fit leaves
\* Spooler.slope, Spooler.intercept and the stored motor_slope and
\* motor_intercept as they were: no step of the sweep changes them, and they
\* change only together, in the fit that follows a complete sweep.
C33_InterruptedCalibrationKeepsFit ==
    [][/\ worker.pc = "calibrate" /\ cal.duty_cycle <= LAST_DUTY_CYCLE
            => MotorCalibration(spooler', Database') = MotorCalibration(spooler, Database)
       /\ MotorCalibration(spooler', Database') # MotorCalibration(spooler, Database)
            => /\ worker.pc = "calibrate"
               /\ cal.duty_cycle > LAST_DUTY_CYCLE
               /\ Len(cal.duty_cycles) = (LAST_DUTY_CYCLE - FIRST_DUTY_CYCLE)
                                            \div DUTY_CYCLE_STEP + 1
               /\ spooler'.slope = get_calibration_data(Database', "motor_slope")
               /\ spooler'.intercept
                    = get_calibration_data(Database', "motor_intercept")]_vars

\* a sweep of a calibrated Spooler was interrupted after at least one duty
\* cycle and calibrate has returned
C33_Witness ==
    /\ worker.pc = "calibrated"
    /\ cal.duty_cycle <= LAST_DUTY_CYCLE
    /\ cal.duty_cycles # <<>>
    /\ spooler.slope = 150
    /\ get_calibration_data(Database, "motor_slope") = 150

\* C34: whatever the interleaving of the timer's camera_loop and the worker's
\* camera_feedback, Database.camera_timestamps is non-decreasing in append
\* order and every logged diameter_delta_time is >= 0.
C34_CameraTimestampsMonotonic ==
    /\ \A i \in 1..Len(Database.camera_timestamps) - 1 :
          Database.camera_timestamps[i] <= Database.camera_timestamps[i + 1]
    /\ \A i \in 1..Len(Database.diameter_delta_time) :
          Database.diameter_delta_time[i] >= 0
=============================================================================
